---- MODULE Spec2Model ----
(***************************************************************************)
(* DataStorageSystem.js: the save/load codec that persists object graphs   *)
(* into a flat key/value store of dynamic properties.                      *)
(*                                                                         *)
(* A JavaScript string is a sequence of one-character strings, so that key *)
(* concatenation, join(",") and split(",") are computed as the code        *)
(* computes them.  A JavaScript value is a record [t, n, s]; objects live  *)
(* in a heap and are named by Ref(id), so identity is the id.              *)
(***************************************************************************)
EXTENDS Integers, Sequences, FiniteSets, TLC

VARIABLES
    heap,                                 \* object id -> object (the JS heap)
    store,                                \* storageDest: key -> primitive value
    savedStorageReferences,               \* instance id -> pointer
    loadedStorageReferences,              \* pointer -> [isLoaded, value]
    KlassenRegistry,                      \* Null, or the set of registered type names
    typesForReferenceBasedStorageSystem,  \* set of type names
    abbreviationsMap,                     \* full name -> abbreviation
    abbreviationsLoad,                    \* abbreviation -> full name
    rnd,                                  \* random strings drawn so far
    call                                  \* the last top-level call and its outcome

vars == <<heap, store, savedStorageReferences, loadedStorageReferences,
          KlassenRegistry, typesForReferenceBasedStorageSystem,
          abbreviationsMap, abbreviationsLoad, rnd, call>>

(***************************************************************************)
(* Bounds of the model.                                                    *)
(***************************************************************************)
MaxDepth == 5        \* objects nested on a path when the call stack is exhausted (RangeError)
MaxCalls == 3        \* top-level Save.saveInstance and Load.loadInstance calls in a run
MaxFails == 1        \* top-level saves in a run during which a store write fails
MaxEarlyCalls == 2   \* top-level calls made before initializeClasses()
MaxFailAt == 4       \* a failing store write is one of the first MaxFailAt writes of a call
MaxAssigns == 1      \* assignments the application makes to a field of a saved instance

(***************************************************************************)
(* String literals of the source.                                          *)
(***************************************************************************)
strKeys == <<"k", "e", "y", "s">>
strType == <<"t", "y", "p", "e">>
strT == <<"t">>
strLength == <<"l", "e", "n", "g", "t", "h">>
strSize == <<"s", "i", "z", "e">>
strItem == <<"i", "t", "e", "m">>
strKey == <<"k", "e", "y">>
strValue == <<"v", "a", "l", "u", "e">>
strPointer == <<"p", "o", "i", "n", "t", "e", "r">>
strArray == <<"A", "r", "r", "a", "y">>
strSet == <<"S", "e", "t">>
strMap == <<"M", "a", "p">>
strStorageReference ==
    <<"s", "t", "o", "r", "a", "g", "e", "R", "e", "f", "e", "r", "e", "n", "c", "e">>
strProperty == <<"p", "r", "o", "p", "e", "r", "t", "y">>
strAbbreviation == <<"a", "b", "b", "r", "e", "v", "i", "a", "t", "i", "o", "n">>
strComma == <<",">>

(***************************************************************************)
(* JavaScript values.                                                      *)
(***************************************************************************)
Undefined == [t |-> "undefined", n |-> 0, s |-> <<>>]
Null == [t |-> "null", n |-> 0, s |-> <<>>]
Num(n) == [t |-> "number", n |-> n, s |-> <<>>]
Bool(b) == [t |-> "boolean", n |-> IF b THEN 1 ELSE 0, s |-> <<>>]
Str(s) == [t |-> "string", n |-> 0, s |-> s]
Ref(id) == [t |-> "object", n |-> id, s |-> <<>>]

IsNullish(v) == v.t \in {"undefined", "null"}                  \* v == null
IsPrimitive(v) == v.t \in {"number", "boolean", "string"}
IsObject(v) == v.t = "object"
\* ToBoolean
Truthy(v) ==
    CASE v.t = "undefined" -> FALSE
      [] v.t = "null" -> FALSE
      [] v.t = "number" -> v.n # 0
      [] v.t = "boolean" -> v.n = 1
      [] v.t = "string" -> v.s # <<>>
      [] OTHER -> TRUE

Digit(n) ==
    CASE n = 0 -> "0" [] n = 1 -> "1" [] n = 2 -> "2" [] n = 3 -> "3" [] n = 4 -> "4"
      [] n = 5 -> "5" [] n = 6 -> "6" [] n = 7 -> "7" [] n = 8 -> "8" [] OTHER -> "9"

RECURSIVE NumToString(_)
\* ToString of a non-negative integer
NumToString(n) ==
    IF n < 10 THEN <<Digit(n)>> ELSE NumToString(n \div 10) \o <<Digit(n % 10)>>

IsDigit(c) == c \in {"0", "1", "2", "3", "4", "5", "6", "7", "8", "9"}
DigitValue(c) == CHOOSE n \in 0..9 : Digit(n) = c

RECURSIVE DigitsToNum(_)
DigitsToNum(s) ==
    IF s = <<>> THEN 0
    ELSE 10 * DigitsToNum(SubSeq(s, 1, Len(s) - 1)) + DigitValue(s[Len(s)])

\* ToString(v), as a template literal `${v}` applies it
TemplateString(v) ==
    CASE v.t = "string" -> v.s
      [] v.t = "number" -> NumToString(v.n)
      [] v.t = "boolean" -> IF v.n = 1 THEN <<"t", "r", "u", "e">>
                                        ELSE <<"f", "a", "l", "s", "e">>
      [] v.t = "null" -> <<"n", "u", "l", "l">>
      [] v.t = "undefined" -> <<"u", "n", "d", "e", "f", "i", "n", "e", "d">>
      [] OTHER -> <<"[", "o", "b", "j", "e", "c", "t", "]">>

\* ToNumber of a primitive, -1 standing for NaN (the model has no negative numbers)
ToNumber(v) ==
    CASE v.t = "number" -> v.n
      [] v.t = "boolean" -> v.n
      [] v.t = "null" -> 0
      [] v.t = "string" -> IF \A i \in 1..Len(v.s) : IsDigit(v.s[i])
                           THEN DigitsToNum(v.s) ELSE -1
      [] OTHER -> -1

RECURSIVE Join(_)
\* Array.prototype.join(",") of a sequence of strings
Join(names) ==
    IF names = <<>> THEN <<>>
    ELSE IF Len(names) = 1 THEN names[1]
    ELSE names[1] \o strComma \o Join(Tail(names))

RECURSIVE Split(_)
\* String.prototype.split(",")
Split(s) ==
    IF \A i \in 1..Len(s) : s[i] # "," THEN <<s>>
    ELSE LET i == CHOOSE j \in 1..Len(s) :
                      s[j] = "," /\ \A k \in 1..(j - 1) : s[k] # ","
         IN <<SubSeq(s, 1, i - 1)>> \o Split(SubSeq(s, i + 1, Len(s)))

(***************************************************************************)
(* Heap objects.  props are the own string-keyed properties in insertion   *)
(* order; elems are the elements of an Array, the items of a Set or the    *)
(* keys of a Map (in insertion order), vals the values of a Map.           *)
(***************************************************************************)
Obj(cls, props) == [kind |-> "obj", cls |-> cls, props |-> props, elems |-> <<>>, vals |-> <<>>]
Arr(elems) == [kind |-> "arr", cls |-> strArray, props |-> <<>>, elems |-> elems, vals |-> <<>>]
SetObj(items) == [kind |-> "set", cls |-> strSet, props |-> <<>>, elems |-> items, vals |-> <<>>]
MapObj(ks, vs) == [kind |-> "map", cls |-> strMap, props |-> <<>>, elems |-> ks, vals |-> vs]
P(name, val) == [name |-> name, val |-> val]

PropNames(o) == [i \in 1..Len(o.props) |-> o.props[i].name]
HasProp(o, name) == \E i \in 1..Len(o.props) : o.props[i].name = name
PropIndex(o, name) == CHOOSE i \in 1..Len(o.props) : o.props[i].name = name
IsIndex(o, name) ==
    /\ o.kind = "arr"
    /\ name # <<>>
    /\ \A i \in 1..Len(name) : IsDigit(name[i])
    /\ NumToString(DigitsToNum(name)) = name

\* Object.getOwnPropertyNames(o)
GetOwnPropertyNames(o) ==
    IF o.kind = "arr"
    THEN [i \in 1..Len(o.elems) |-> NumToString(i - 1)] \o <<strLength>> \o PropNames(o)
    ELSE PropNames(o)

\* o[name]
Get(o, name) ==
    IF IsIndex(o, name)
    THEN IF DigitsToNum(name) < Len(o.elems) THEN o.elems[DigitsToNum(name) + 1] ELSE Undefined
    ELSE IF o.kind = "arr" /\ name = strLength THEN Num(Len(o.elems))
    ELSE IF HasProp(o, name) THEN o.props[PropIndex(o, name)].val
    ELSE IF o.kind \in {"set", "map"} /\ name = strSize THEN Num(Len(o.elems))
    ELSE Undefined

\* arr.length = n
Resize(elems, n) == [i \in 1..n |-> IF i <= Len(elems) THEN elems[i] ELSE Undefined]

\* o[name] = val, for a name the assignment accepts
Put(o, name, val) ==
    IF IsIndex(o, name)
    THEN LET i == DigitsToNum(name) + 1
             grown == IF i > Len(o.elems) THEN Resize(o.elems, i) ELSE o.elems
         IN [o EXCEPT !.elems = [grown EXCEPT ![i] = val]]
    ELSE IF o.kind = "arr" /\ name = strLength
    THEN [o EXCEPT !.elems = Resize(o.elems, ToNumber(val))]
    ELSE IF HasProp(o, name)
    THEN [o EXCEPT !.props[PropIndex(o, name)].val = val]
    ELSE [o EXCEPT !.props = Append(o.props, P(name, val))]

\* whether arr.length = val raises RangeError (Invalid array length)
BadLength(o, name, val) == o.kind = "arr" /\ name = strLength /\ ToNumber(val) < 0

NewId(h) == IF DOMAIN h = {} THEN 1 ELSE (CHOOSE i \in DOMAIN h : \A j \in DOMAIN h : j <= i) + 1
Alloc(h, o) == [i \in DOMAIN h \cup {NewId(h)} |-> IF i = NewId(h) THEN o ELSE h[i]]

(***************************************************************************)
(* Module-level tables of the source.                                      *)
(***************************************************************************)
ignoreProperties == {}
typesWithCostumizedStorageSystem == {strArray, strStorageReference, strSet, strMap}

\* abbreviationsMap.has(k) ? abbreviationsMap.get(k) : k
Abbreviate(k) == IF k \in DOMAIN abbreviationsMap THEN abbreviationsMap[k] ELSE k
\* abbreviationsLoad.get(key) ?? key
Expand(k) == IF k \in DOMAIN abbreviationsLoad THEN abbreviationsLoad[k] ELSE k

\* typesForReferenceBasedStorageSystem.has(type)
IsReferenceType(type) == type.t = "string" /\ type.s \in typesForReferenceBasedStorageSystem
\* type && typesWithCostumizedStorageSystem.has(type)
IsCostumizedType(type) == type.t = "string" /\ type.s \in typesWithCostumizedStorageSystem

\* V3Collection.generateRandomStringWithSymbols(35): a string no earlier call returned
generateRandomStringWithSymbols(n) == <<"#">> \o NumToString(n)

(***************************************************************************)
(* The state threaded through one top-level save: what the call has done   *)
(* to the heap, the store and the save-side table, the store writes it has *)
(* attempted (nw) and made (log), whether an exception is propagating      *)
(* (exc), whether the call stack overflowed (overflow), and which write of *)
(* the call the store rejects (failAt, 0 for none).                        *)
(***************************************************************************)
Throw(s) == [s EXCEPT !.exc = TRUE]
Catch(s) == [s EXCEPT !.exc = FALSE]
StackOverflow(s) == [s EXCEPT !.exc = TRUE, !.overflow = TRUE]

Update(f, k, v) == [x \in DOMAIN f \cup {k} |-> IF x = k THEN v ELSE f[x]]
Remove(f, k) == [x \in DOMAIN f \ {k} |-> f[x]]

\* storageDest.setDynamicProperty(key, value): raises, or sets the entry
\* (an undefined value clears it)
setDynamicProperty(s, key, value) ==
    IF s.nw + 1 = s.failAt
    THEN [s EXCEPT !.nw = @ + 1, !.exc = TRUE]
    ELSE [s EXCEPT !.nw = @ + 1,
                   !.store = IF value.t = "undefined" THEN Remove(@, key)
                             ELSE Update(@, key, value),
                   !.log = Append(@, <<key, value>>)]

\* storageDest.getDynamicProperty(key)
getDynamicProperty(st, key) == IF key \in DOMAIN st THEN st[key] ELSE Undefined

\* Save.getType
getType(o) ==
    IF o.kind = "arr" THEN Str(strArray)
    ELSE IF o.kind = "map" THEN Str(strMap)
    ELSE IF o.kind = "set" THEN Str(strSet)
    ELSE Get(o, strType)

\* Save.getKeys: no property of a heap object is a function
getKeys(o, filter) ==
    LET allProps == GetOwnPropertyNames(o)
    IN IF Len(allProps) = 0 THEN <<>>
       ELSE SelectSeq(allProps, LAMBDA prop : filter /\ prop \notin ignoreProperties)

\* line 160 with reference substitution left on for the save under the pointer
storageReferenceAllowedAtPointerKept == TRUE
\* this.saveInstance(instance, pointer, storageDest, true, false)
storageReferenceAllowedAtPointer == FALSE

\* line 144 with a table that is empty at every lookup
savedStorageReferencesHasNever(saved, id) == FALSE
\* savedStorageReferences.has(instance)
savedStorageReferencesHas(saved, id) == id \in DOMAIN saved

\* line 157 left out: the pointer is minted but the instance is not recorded
savedStorageReferencesSetOmitted(saved, id, pointer) == saved
\* savedStorageReferences.set(instance, pointer)
savedStorageReferencesSet(saved, id, pointer) == Update(saved, id, pointer)

\* { type: "storageReference", pointer: pointer }
Placeholder(pointer) ==
    Obj(<<>>, <<P(strType, Str(strStorageReference)), P(strPointer, pointer)>>)

RECURSIVE saveInstance(_, _, _, _, _, _)
RECURSIVE costumizedSave(_, _, _, _)
RECURSIVE SaveFields(_, _, _, _, _, _)
RECURSIVE SaveElements(_, _, _, _, _, _)
RECURSIVE SaveItems(_, _, _, _, _)
RECURSIVE SaveEntries(_, _, _, _, _)

\* lines 191-203: the loop over keys from position i on, each field in its try/catch
SaveFields(s, id, keys, i, saveKey, d) ==
    IF i > Len(keys) THEN s
    ELSE LET key == keys[i]
             prop == Get(s.heap[id], key)
             saveKeyAbbreviated == Abbreviate(key)
             s1 == saveInstance(s, prop, saveKey \o saveKeyAbbreviated, TRUE, TRUE, d + 1)
         IN IF s1.exc THEN SaveFields(Catch(s1), id, keys, i + 1, saveKey, d)
            ELSE SaveFields(s1, id, keys, i + 1, saveKey, d)

\* lines 246-250: the loop over arrKeys from position i on, no try/catch
SaveElements(s, id, keys, i, saveKey, d) ==
    IF i > Len(keys) THEN s
    ELSE LET key == keys[i]
             prop == Get(s.heap[id], key)
             saveKeyAbbreviated == Abbreviate(key)
             s1 == saveInstance(s, prop, saveKey \o saveKeyAbbreviated, TRUE, TRUE, d + 1)
         IN IF s1.exc THEN s1 ELSE SaveElements(s1, id, keys, i + 1, saveKey, d)

\* lines 259-267: the loop over the items of a Set, idx = i - 1
SaveItems(s, id, i, saveKey, d) ==
    IF i > Len(s.heap[id].elems) THEN s
    ELSE LET item == s.heap[id].elems[i]
             s1 == saveInstance(s, item, saveKey \o strItem \o NumToString(i - 1),
                                TRUE, TRUE, d + 1)
         IN IF s1.exc THEN s1 ELSE SaveItems(s1, id, i + 1, saveKey, d)

\* lines 281-294: the loop over the entries of a Map, idx = i - 1
SaveEntries(s, id, i, saveKey, d) ==
    IF i > Len(s.heap[id].elems) THEN s
    ELSE LET key == s.heap[id].elems[i]
             value == s.heap[id].vals[i]
             s1 == saveInstance(s, key, saveKey \o strKey \o NumToString(i - 1),
                                TRUE, TRUE, d + 1)
             s2 == saveInstance(s1, value, saveKey \o strValue \o NumToString(i - 1),
                                TRUE, TRUE, d + 1)
         IN IF s1.exc THEN s1
            ELSE IF s2.exc THEN s2
            ELSE SaveEntries(s2, id, i + 1, saveKey, d)

\* Save.costumizedSave
costumizedSave(s, id, saveKey, d) ==
    IF d > MaxDepth THEN StackOverflow(s)
    ELSE LET type == Get(s.heap[id], strType)
    IN CASE type = Str(strArray) ->
              LET keysToSave == <<strLength, strType>>
                  s1 == Catch(setDynamicProperty(s, saveKey \o strKeys,
                            Str(Join([i \in 1..Len(keysToSave) |-> Abbreviate(keysToSave[i])]))))
                  arrKeys == getKeys(s1.heap[id], TRUE)
              IN SaveElements(s1, id, arrKeys, 1, saveKey, d)
         [] type = Str(strSet) ->
              LET s1 == setDynamicProperty(s, saveKey \o strType, Str(strSet))
                  s2 == setDynamicProperty(s1, saveKey \o strSize, Get(s1.heap[id], strSize))
                  \* for (const item of instance) raises TypeError unless instance is iterable
                  s3 == IF s2.heap[id].kind \in {"set", "arr", "map"}
                        THEN SaveItems(s2, id, 1, saveKey, d) ELSE Throw(s2)
              IN IF s1.exc THEN Catch(s1)
                 ELSE IF s2.exc THEN Catch(s2)
                 ELSE Catch(s3)
         [] type = Str(strMap) ->
              LET s1 == setDynamicProperty(s, saveKey \o strType, Str(strMap))
                  s2 == setDynamicProperty(s1, saveKey \o strSize, Get(s1.heap[id], strSize))
                  \* for (const [key, value] of instance) raises TypeError unless
                  \* instance yields pairs
                  s3 == IF s2.heap[id].kind = "map"
                        THEN SaveEntries(s2, id, 1, saveKey, d) ELSE Throw(s2)
              IN IF s1.exc THEN Catch(s1)
                 ELSE IF s2.exc THEN Catch(s2)
                 ELSE Catch(s3)
         [] OTHER -> saveInstance(s, Ref(id), saveKey, FALSE, TRUE, d)

\* Save.saveInstance
saveInstance(s, instance, saveKey, costumizedSaveAllowed, storageReferenceAllowed, d) ==
    IF d > MaxDepth THEN StackOverflow(s)
    ELSE IF IsNullish(instance) THEN s
    ELSE IF IsPrimitive(instance) THEN Catch(setDynamicProperty(s, saveKey, instance))
    ELSE
    LET id == instance.n
        s0 == [s EXCEPT !.heap[id] = Put(@, strType, getType(@))]
        type == Get(s0.heap[id], strType)
    IN IF storageReferenceAllowed /\ IsReferenceType(type)
       THEN IF savedStorageReferencesHas(s0.saved, id)
            THEN LET pointer == s0.saved[id]
                     s1 == [s0 EXCEPT !.heap = Alloc(@, Placeholder(Str(pointer)))]
                 IN saveInstance(s1, Ref(NewId(s0.heap)), saveKey, TRUE, TRUE, d)
            ELSE LET pointer == saveKey \o generateRandomStringWithSymbols(s0.rnd)
                     s1 == [s0 EXCEPT !.saved = savedStorageReferencesSet(@, id, pointer),
                                     !.rnd = @ + 1]
                     s2 == saveInstance(s1, instance, pointer, TRUE,
                                        storageReferenceAllowedAtPointer, d)
                     s3 == [s2 EXCEPT !.heap = Alloc(@, Placeholder(Str(pointer)))]
                 IN IF s2.exc THEN s2
                    ELSE saveInstance(s3, Ref(NewId(s2.heap)), saveKey, TRUE, TRUE, d)
       ELSE IF IsCostumizedType(type) /\ costumizedSaveAllowed
       THEN costumizedSave(s0, id, saveKey, d)
       ELSE LET keys == getKeys(s0.heap[id], TRUE)
                s1 == setDynamicProperty(s0, saveKey \o strKeys,
                          Str(Join([i \in 1..Len(keys) |-> Abbreviate(keys[i])])))
            IN IF s1.exc THEN s1
               ELSE SaveFields(s1, id, keys, 1, saveKey, d)

(***************************************************************************)
(* The state threaded through one top-level load: the heap (reconstructed  *)
(* objects are allocated in it), the store, the load-side table, the value *)
(* returned by the call just made (ret), whether an exception is           *)
(* propagating, and what the call did with each pointer it dereferenced    *)
(* (events).  Load has no try/catch: an exception ends the whole call.     *)
(***************************************************************************)
Return(l, v) == [l EXCEPT !.ret = v]

\* what the storageReference branch of Load.costumizedLoad did with a pointer:
\* "mark" (line 426), "resolve" (line 428), "placeholder" (line 422), "hit" (line 419)
Emit(l, e, pointer, value) ==
    [l EXCEPT !.events = Append(@, [e |-> e, pointer |-> pointer, value |-> value])]

\* line 416 as a test for a resolved entry only
loadedStorageReferencesHasResolved(loaded, pointer) ==
    pointer \in DOMAIN loaded /\ loaded[pointer].isLoaded
\* loadedStorageReferences.has(pointer)
loadedStorageReferencesHas(loaded, pointer) == pointer \in DOMAIN loaded

\* KlassenRegistry[instanceType] is a constructor
IsRegistered(instanceType) == TemplateString(instanceType) \in KlassenRegistry.classes

\* line 356 without its guard: new KlassenRegistry[type]() of a type that has no
\* constructor raises TypeError
RegistryLookupRaisesUnguarded(instanceType) ==
    KlassenRegistry.isNull \/ ~IsRegistered(instanceType)
\* KlassenRegistry[instanceType] raises TypeError when KlassenRegistry is null
RegistryLookupRaises(instanceType) == KlassenRegistry.isNull

\* Load.createInstance: new KlassenRegistry[type]()
createInstance(type) ==
    IF type = strArray THEN Arr(<<>>)
    ELSE IF type = strMap THEN MapObj(<<>>, <<>>)
    ELSE IF type = strSet THEN SetObj(<<>>)
    ELSE Obj(type, <<>>)

\* Set.prototype.add
SetAdd(o, item) ==
    IF \E i \in 1..Len(o.elems) : o.elems[i] = item THEN o
    ELSE [o EXCEPT !.elems = Append(@, item)]

\* Map.prototype.set
MapSet(o, key, value) ==
    IF \E i \in 1..Len(o.elems) : o.elems[i] = key
    THEN [o EXCEPT !.vals[CHOOSE i \in 1..Len(o.elems) : o.elems[i] = key] = value]
    ELSE [o EXCEPT !.elems = Append(@, key), !.vals = Append(@, value)]

RECURSIVE loadInstance(_, _, _, _)
RECURSIVE costumizedLoad(_, _, _, _)
RECURSIVE completeMissingProperties(_, _, _, _, _)
RECURSIVE LoadFields(_, _, _, _, _, _)
RECURSIVE LoadItems(_, _, _, _, _, _)
RECURSIVE LoadEntries(_, _, _, _, _, _)
RECURSIVE CompleteFields(_, _, _, _, _)

\* lines 375-378 and 407-410: the loop over keys from position i on
LoadFields(l, id, keys, i, loadKey, d) ==
    IF i > Len(keys) THEN Return(l, Ref(id))
    ELSE LET key == keys[i]
             l1 == loadInstance(l, loadKey \o key, TRUE, d + 1)
             name == Expand(key)
         IN IF l1.exc THEN l1
            ELSE IF BadLength(l1.heap[id], name, l1.ret) THEN Throw(l1)
            ELSE LoadFields([l1 EXCEPT !.heap[id] = Put(@, name, l1.ret)],
                            id, keys, i + 1, loadKey, d)

\* lines 437-443: the loop for (let i = 0; i < size; i++), from i on
LoadItems(l, id, i, size, loadKey, d) ==
    IF ~(i < size) THEN Return(l, Ref(id))
    ELSE LET l1 == loadInstance(l, loadKey \o strItem \o NumToString(i), TRUE, d + 1)
         IN IF l1.exc THEN l1
            ELSE LoadItems([l1 EXCEPT !.heap[id] = SetAdd(@, l1.ret)],
                           id, i + 1, size, loadKey, d)

\* lines 451-461: the loop for (let i = 0; i < size; i++), from i on
LoadEntries(l, id, i, size, loadKey, d) ==
    IF ~(i < size) THEN Return(l, Ref(id))
    ELSE LET l1 == loadInstance(l, loadKey \o strKey \o NumToString(i), TRUE, d + 1)
             l2 == loadInstance(l1, loadKey \o strValue \o NumToString(i), TRUE, d + 1)
         IN IF l1.exc THEN l1
            ELSE IF l2.exc THEN l2
            ELSE LoadEntries([l2 EXCEPT !.heap[id] = MapSet(@, l1.ret, l2.ret)],
                             id, i + 1, size, loadKey, d)

\* lines 504-506: the loop over keys from position i on
CompleteFields(l, id, keys, i, d) ==
    IF i > Len(keys) THEN l
    ELSE LET l1 == completeMissingProperties(l, Get(l.heap[id], keys[i]), Ref(id),
                                             keys[i], d + 1)
         IN IF l1.exc THEN l1 ELSE CompleteFields(l1, id, keys, i + 1, d)

\* Load.completeMissingProperties
completeMissingProperties(l, instance, parent, prop, d) ==
    IF d > MaxDepth THEN StackOverflow(l)
    ELSE IF IsPrimitive(instance) \/ IsNullish(instance) THEN l
    ELSE LET o == l.heap[instance.n]
             keys == getKeys(o, FALSE)
         IN IF Len(keys) <= 0 THEN l
            ELSE IF /\ Get(o, strType) = Str(strStorageReference)
                    /\ Get(o, strPointer) \in DOMAIN l.loaded
            THEN IF ~IsNullish(parent)
                 THEN [l EXCEPT !.heap[parent.n] =
                                   Put(@, prop, l.loaded[Get(o, strPointer)].value)]
                 ELSE l
            ELSE CompleteFields(l, instance.n, keys, 1, d)

\* Load.costumizedLoad
costumizedLoad(l, type, loadKey, d) ==
    IF d > MaxDepth THEN StackOverflow(l)
    ELSE
    CASE type = Str(strArray) ->
           LET arrayLength == getDynamicProperty(l.store, loadKey \o strLength)
               \* arrInstance.length = arrayLength; arrInstance.fill(1, 0, arrayLength)
               arrInstance == Arr([i \in 1..ToNumber(arrayLength) |-> Num(1)])
               id == NewId(l.heap)
               arrKeys == SelectSeq(getKeys(arrInstance, TRUE),
                                    LAMBDA item : item \notin ignoreProperties)
           IN IF ToNumber(arrayLength) < 0 THEN Throw(l)
              ELSE LoadFields([l EXCEPT !.heap = Alloc(@, arrInstance)],
                              id, arrKeys, 1, loadKey, d)
      [] type = Str(strStorageReference) ->
           LET pointer == getDynamicProperty(l.store, loadKey \o strPointer)
           IN IF loadedStorageReferencesHas(l.loaded, pointer)
              THEN LET loadingInfos == l.loaded[pointer]
                   IN IF loadingInfos.isLoaded
                      THEN Return(Emit(l, "hit", pointer, loadingInfos.value),
                                  loadingInfos.value)
                      ELSE Return(Emit([l EXCEPT !.heap = Alloc(@, Placeholder(pointer))],
                                       "placeholder", pointer, Ref(NewId(l.heap))),
                                  Ref(NewId(l.heap)))
              ELSE LET l1 == Emit([l EXCEPT !.loaded =
                                     Update(@, pointer, [isLoaded |-> FALSE, value |-> Null])],
                                  "mark", pointer, Null)
                       l2 == loadInstance(l1, TemplateString(pointer), TRUE, d)
                       loadedObj == l2.ret
                       l3 == Emit([l2 EXCEPT !.loaded =
                                     Update(@, pointer, [isLoaded |-> TRUE, value |-> loadedObj])],
                                  "resolve", pointer, loadedObj)
                       l4 == completeMissingProperties(l3, loadedObj, Null, <<>>, d)
                   IN IF l2.exc THEN l2
                      ELSE IF l4.exc THEN l4
                      ELSE Return(l4, loadedObj)
      [] type = Str(strSet) ->
           LET size == getDynamicProperty(l.store, loadKey \o strSize)
               id == NewId(l.heap)
           IN LoadItems([l EXCEPT !.heap = Alloc(@, SetObj(<<>>))],
                        id, 0, ToNumber(size), loadKey, d)
      [] type = Str(strMap) ->
           LET size == getDynamicProperty(l.store, loadKey \o strSize)
               id == NewId(l.heap)
           IN LoadEntries([l EXCEPT !.heap = Alloc(@, MapObj(<<>>, <<>>))],
                          id, 0, ToNumber(size), loadKey, d)
      [] OTHER -> loadInstance(l, loadKey, FALSE, d)

\* lines 382-383 as a read that clears the entry it has read
ReadValueConsuming(l, loadKey) ==
    Return([l EXCEPT !.store = Remove(@, loadKey)], getDynamicProperty(l.store, loadKey))
\* const value = storageDest.getDynamicProperty(`${loadKey}`); return value
ReadValue(l, loadKey) == Return(l, getDynamicProperty(l.store, loadKey))

\* lines 362-364 without `if (keys)`: undefined.split raises TypeError as well
SplitRaisesUnguarded(keys) == keys.t # "string"
\* if (keys) keys = keys.split(","): split on a number or a boolean raises TypeError
SplitRaises(keys) == Truthy(keys) /\ keys.t # "string"

\* Load.loadInstance
loadInstance(l, loadKey, costumizedSaveAllowed, d) ==
    IF d > MaxDepth THEN StackOverflow(l)
    ELSE
    LET instanceType == getDynamicProperty(l.store, loadKey \o strT)
        keys == getDynamicProperty(l.store, loadKey \o strKeys)
        id == NewId(l.heap)
        \* the instance from the class registry, or {}
        instance == IF Truthy(instanceType) /\ IsRegistered(instanceType)
                    THEN createInstance(TemplateString(instanceType))
                    ELSE Obj(<<>>, <<>>)
    IN IF Truthy(instanceType) /\ IsCostumizedType(instanceType) /\ costumizedSaveAllowed
       THEN costumizedLoad(l, instanceType, loadKey, d)
       ELSE IF Truthy(instanceType) /\ RegistryLookupRaises(instanceType) THEN Throw(l)
       ELSE IF SplitRaises(keys) THEN Throw(l)
       ELSE IF Truthy(keys)
       THEN LoadFields([l EXCEPT !.heap = Alloc(@, instance)], id,
                       SelectSeq(Split(keys.s), LAMBDA item : item \notin ignoreProperties),
                       1, loadKey, d)
       ELSE ReadValue(l, loadKey)

(***************************************************************************)
(* The object graphs an application holds when it starts to save: at most  *)
(* two objects, 1 and 2, with fields drawn from Vals.  Object 2 exists     *)
(* when object 1 refers to it.                                             *)
(***************************************************************************)
strNode == <<"N", "o", "d", "e">>
strA == <<"a">>
strB == <<"b">>
strX == <<"x">>
strK == <<"K">>
strL == <<"L">>

Vals == {Num(1), Ref(1), Ref(2)}
Node1(v) == Obj(strNode, <<P(strA, v), P(strType, Str(strNode))>>)
Node2(v, w) == Obj(strNode, <<P(strA, v), P(strB, w), P(strType, Str(strNode))>>)
Plain1(v) == Obj(<<>>, <<P(strA, v)>>)
\* a record whose field aa spells the path a.a
Plain2(v) == Obj(<<>>, <<P(strA, v), P(strA \o strA, Num(2))>>)
\* a record with one field of the given name
Named(name) == Obj(<<>>, <<P(name, Num(1))>>)

OuterShapes ==
    {Node1(v) : v \in Vals}
    \cup {Node2(v, w) : v \in Vals, w \in {Num(1), Ref(2)}}
    \cup {Plain1(v) : v \in Vals}
    \cup {Arr(<<v, Num(1)>>) : v \in Vals}
    \cup {SetObj(<<Str(strX), v>>) : v \in Vals}
    \cup {MapObj(<<Str(strX)>>, <<v>>) : v \in Vals}
    \cup {MapObj(<<Ref(2)>>, <<Num(1)>>)}
InnerShapes ==
    {Node1(v) : v \in Vals} \cup {Arr(<<Num(1)>>)}

\* the values an object holds directly
Held(o) ==
    {o.props[i].val : i \in 1..Len(o.props)}
    \cup {o.elems[i] : i \in 1..Len(o.elems)}
    \cup {o.vals[i] : i \in 1..Len(o.vals)}

Heaps ==
    {<<o>> : o \in {x \in OuterShapes : Ref(2) \notin Held(x)}}
    \cup {<<o, p>> : o \in {x \in OuterShapes : Ref(2) \in Held(x)}, p \in InnerShapes}
    \cup {<<Plain2(Ref(2)), Node1(Num(1))>>}
    \cup {<<Named(name)>> : name \in {strProperty, strAbbreviation}}

\* the instances and keys of the top-level calls
Instances == {Ref(1), Ref(2), Num(7), Null}
RootKeys == {strK, strL}
\* the arguments of the top-level saves, with the write the store rejects (0: none)
SaveInputs ==
    {<<instance, saveKey, 0>> : instance \in Instances, saveKey \in RootKeys}
    \cup {<<Undefined, strK, 0>>}
    \cup {<<Ref(1), strK, failAt>> : failAt \in 1..MaxFailAt}

NoCall ==
    [op |-> "none", calls |-> 0, saves |-> 0, loads |-> 0, fails |-> 0,
     instance |-> Null, saveKey |-> <<>>, failAt |-> 0, saveThrew |-> FALSE,
     saveOverflow |-> FALSE, log |-> <<>>, heap0 |-> <<>>,
     loadKey |-> <<>>, loadThrew |-> FALSE, loadOverflow |-> FALSE, ret |-> Undefined,
     events |-> <<>>, loaded0 |-> <<>>, assigns |-> 0]

InitCommon ==
    /\ heap \in Heaps
    /\ store = <<>>
    /\ savedStorageReferences = <<>>
    /\ loadedStorageReferences = <<>>
    /\ KlassenRegistry = [isNull |-> TRUE, classes |-> {}]
    /\ rnd = 0
    /\ call = NoCall

\* the tables as the source ships them
Init ==
    /\ InitCommon
    /\ typesForReferenceBasedStorageSystem = {}
    /\ abbreviationsMap = (strProperty :> strAbbreviation)
    /\ abbreviationsLoad = (strAbbreviation :> strProperty)

\* the tables of an application that registers Node for reference-based storage
\* and abbreviates type to t, the key under which Load.loadInstance reads a type
InitRegistered ==
    /\ InitCommon
    /\ typesForReferenceBasedStorageSystem = {strNode}
    /\ abbreviationsMap = (strProperty :> strAbbreviation) @@ (strType :> strT)
    /\ abbreviationsLoad = (strAbbreviation :> strProperty) @@ (strT :> strType)

\* initializeClasses()
initializeClasses ==
    /\ KlassenRegistry.isNull
    /\ KlassenRegistry' = [isNull |-> FALSE, classes |-> {strArray, strMap, strSet}]
    /\ call' = [call EXCEPT !.op = "initializeClasses"]
    /\ UNCHANGED <<heap, store, savedStorageReferences, loadedStorageReferences,
                   typesForReferenceBasedStorageSystem, abbreviationsMap,
                   abbreviationsLoad, rnd>>

\* a top-level Save.saveInstance(instance, saveKey, storageDest), the store
\* rejecting the failAt-th write of the call (none when failAt = 0)
SaveCall(instance, saveKey, failAt) ==
    /\ call.calls < MaxCalls
    /\ KlassenRegistry.isNull => call.calls < MaxEarlyCalls
    /\ failAt > 0 => call.fails < MaxFails
    /\ IsObject(instance) => instance.n \in DOMAIN heap
    /\ LET s0 == [heap |-> heap, store |-> store, saved |-> savedStorageReferences,
                  rnd |-> rnd, nw |-> 0, failAt |-> failAt, exc |-> FALSE,
                  overflow |-> FALSE, log |-> <<>>]
           s == saveInstance(s0, instance, saveKey, TRUE, TRUE, 1)
       IN /\ failAt > 0 => s.nw >= failAt      \* the failing write is one the call makes
          /\ heap' = [i \in DOMAIN heap |-> s.heap[i]]
          /\ store' = s.store
          /\ savedStorageReferences' = s.saved
          /\ rnd' = s.rnd
          /\ call' = [call EXCEPT !.op = "save", !.calls = @ + 1, !.saves = @ + 1,
                          !.fails = IF failAt > 0 THEN @ + 1 ELSE @,
                          !.instance = instance, !.saveKey = saveKey, !.failAt = failAt,
                          !.saveThrew = s.exc, !.saveOverflow = s.overflow,
                          !.log = s.log, !.heap0 = heap]
    /\ UNCHANGED <<loadedStorageReferences, KlassenRegistry,
                   typesForReferenceBasedStorageSystem, abbreviationsMap, abbreviationsLoad>>

\* a top-level Load.loadInstance(loadKey, storageDest)
LoadCall(loadKey) ==
    /\ call.calls < MaxCalls
    /\ KlassenRegistry.isNull => call.calls < MaxEarlyCalls
    /\ LET l0 == [heap |-> heap, store |-> store, loaded |-> loadedStorageReferences,
                  ret |-> Undefined, exc |-> FALSE, overflow |-> FALSE, events |-> <<>>]
           l == loadInstance(l0, loadKey, TRUE, 1)
       IN /\ heap' = l.heap
          /\ store' = l.store
          /\ loadedStorageReferences' = l.loaded
          /\ call' = [call EXCEPT !.op = "load", !.calls = @ + 1, !.loads = @ + 1, !.loadKey = loadKey,
                          !.loadThrew = l.exc, !.loadOverflow = l.overflow,
                          !.ret = IF l.exc THEN Undefined ELSE l.ret,
                          !.events = l.events, !.loaded0 = loadedStorageReferences]
    /\ UNCHANGED <<savedStorageReferences, KlassenRegistry, rnd,
                   typesForReferenceBasedStorageSystem, abbreviationsMap, abbreviationsLoad>>

\* the application, which holds the instance it has just saved for the first
\* time, assigns a new value to its field a: instance.a = 2
AssignField ==
    /\ call.assigns < MaxAssigns
    /\ call.op = "save" /\ call.saves = 1
    /\ IsObject(call.instance)
    /\ heap[call.instance.n].kind = "obj"
    /\ Get(heap[call.instance.n], strType) = Str(strNode)
    /\ Get(heap[call.instance.n], strA) = Num(1)
    /\ heap' = [heap EXCEPT ![call.instance.n] = Put(@, strA, Num(2))]
    /\ call' = [call EXCEPT !.op = "assign", !.assigns = @ + 1]
    /\ UNCHANGED <<store, savedStorageReferences, loadedStorageReferences, KlassenRegistry,
                   typesForReferenceBasedStorageSystem, abbreviationsMap,
                   abbreviationsLoad, rnd>>

Save == \E input \in SaveInputs : SaveCall(input[1], input[2], input[3])
Load == \E loadKey \in RootKeys : LoadCall(loadKey)

Next == Save \/ Load \/ initializeClasses \/ AssignField

Spec == Init /\ [][Next]_vars
SpecRegistered == InitRegistered /\ [][Next]_vars

(***************************************************************************)
(* Vocabulary of the properties: the shape of an object graph, structural  *)
(* equality, and the history a state carries in call.                      *)
(***************************************************************************)
\* the object-valued slots of o, in order
ObjRefs(o) ==
    SelectSeq([i \in 1..Len(o.props) |-> o.props[i].val] \o o.elems \o o.vals, IsObject)

RECURSIVE Reach(_, _, _)
Reach(h, ids, n) ==
    IF n = 0 THEN ids
    ELSE Reach(h, ids \cup {x.n : x \in UNION {Held(h[i]) \cap {Ref(j) : j \in DOMAIN h} : i \in ids}},
               n - 1)

\* the objects of h a value leads to, itself included
Reachable(h, v) == IF IsObject(v) THEN Reach(h, {v.n}, Len(h)) ELSE {}

\* some object of the graph of v leads back to itself
Cyclic(h, v) ==
    \E i \in Reachable(h, v) :
        \E j \in 1..Len(ObjRefs(h[i])) : i \in Reachable(h, ObjRefs(h[i])[j])

\* some object of the graph of v is held in two slots of the graph
Shared(h, v) ==
    \E i \in Reachable(h, v) :
        LET c == ObjRefs(h[i])
        IN \E j, k \in 1..Len(c) :
              j < k /\ Reachable(h, c[j]) \cap Reachable(h, c[k]) # {}

\* every object of the graph of v is a built-in collection or a record whose
\* type is in the class registry
InRegistry(h, v) ==
    \A i \in Reachable(h, v) :
        \/ h[i].kind \in {"arr", "set", "map"}
        \/ /\ Get(h[i], strType).t = "string"
           /\ Get(h[i], strType).s \in KlassenRegistry.classes

\* v and w of heap h have the same structure, down to n levels: the same
\* primitives, collections of the same kind with equal members in order, records
\* with equal fields (the type tag of a collection is not a member)
RECURSIVE StructEq(_, _, _, _)
StructEq(h, v, w, n) ==
    IF ~IsObject(v) \/ ~IsObject(w) THEN v = w
    ELSE IF n = 0 THEN FALSE
    ELSE LET o == h[v.n]
             p == h[w.n]
         IN /\ o.kind = p.kind
            /\ Len(o.elems) = Len(p.elems)
            /\ \A i \in 1..Len(o.elems) : StructEq(h, o.elems[i], p.elems[i], n - 1)
            /\ Len(o.vals) = Len(p.vals)
            /\ \A i \in 1..Len(o.vals) : StructEq(h, o.vals[i], p.vals[i], n - 1)
            /\ o.kind = "obj" =>
                  /\ {o.props[i].name : i \in 1..Len(o.props)}
                         = {p.props[i].name : i \in 1..Len(p.props)}
                  /\ \A i \in 1..Len(o.props) :
                        StructEq(h, o.props[i].val, Get(p, o.props[i].name), n - 1)

\* a record of the heap family with a discriminator
IsNode(h, v) == IsObject(v) /\ h[v.n].kind = "obj" /\ Get(h[v.n], strType) = Str(strNode)
\* a reference placeholder
IsPlaceholder(h, v) ==
    IsObject(v) /\ h[v.n].kind = "obj" /\ Get(h[v.n], strType) = Str(strStorageReference)

\* the last call was a save no write of which failed
CleanSave == call.failAt = 0 /\ ~call.saveThrew /\ ~call.saveOverflow
\* the run is one clean save onto the empty store, then a load of the saved
\* key with the class registry initialised, the instance left as it was saved
SavedThenLoaded ==
    /\ call.op = "load" /\ call.calls = 2 /\ call.saves = 1 /\ call.assigns = 0
    /\ CleanSave
    /\ call.loadKey = call.saveKey
    /\ ~KlassenRegistry.isNull

\* C1: a graph of primitives, sequences, sets, maps and records of registered
\* type, no instance of which is reachable by two paths, saved onto the empty
\* store and loaded from the same key comes back structurally equal.
RoundTrip ==
    (/\ SavedThenLoaded
     /\ InRegistry(call.heap0, call.instance)
     /\ ~Cyclic(call.heap0, call.instance)
     /\ ~Shared(call.heap0, call.instance))
    => /\ ~call.loadThrew
       /\ StructEq(heap, call.ret, call.instance, MaxDepth)

\* C2: a record a with a.a = a, saved and then loaded, comes back as a record b
\* whose field a is b itself, not a reference placeholder.
SelfCycleLoaded ==
    (/\ SavedThenLoaded
     /\ IsNode(call.heap0, call.instance)
     /\ Get(call.heap0[call.instance.n], strA) = call.instance)
    => /\ ~call.loadThrew
       /\ IsObject(call.ret)
       /\ Get(heap[call.ret.n], strA) = call.ret

\* C3: records a and b with a.a = b and b.a = a, a saved and then loaded: the
\* result r has r.a.a = r, and neither r nor r.a holds a reference placeholder.
MutualCycleLoaded ==
    (/\ SavedThenLoaded
     /\ IsNode(call.heap0, call.instance)
     /\ LET b == Get(call.heap0[call.instance.n], strA)
        IN /\ IsNode(call.heap0, b)
           /\ b # call.instance
           /\ Get(call.heap0[b.n], strA) = call.instance)
    => /\ ~call.loadThrew
       /\ IsObject(call.ret)
       /\ LET r == call.ret
              next == Get(heap[r.n], strA)
          IN /\ IsObject(next)
             /\ ~IsPlaceholder(heap, next)
             /\ Get(heap[next.n], strA) = r

\* C4: an instance held in two fields a and b of a saved record is, after the
\* load, one reconstructed object held in both fields.
SharingLoaded ==
    (/\ SavedThenLoaded
     /\ IsObject(call.instance)
     /\ call.heap0[call.instance.n].kind = "obj"
     /\ IsObject(Get(call.heap0[call.instance.n], strA))
     /\ Get(call.heap0[call.instance.n], strA) = Get(call.heap0[call.instance.n], strB)
     /\ ~Cyclic(call.heap0, call.instance))
    => /\ ~call.loadThrew
       /\ IsObject(call.ret)
       /\ IsObject(Get(heap[call.ret.n], strA))
       /\ Get(heap[call.ret.n], strA) = Get(heap[call.ret.n], strB)

\* s ends with suf
EndsWith(s, suf) ==
    Len(s) >= Len(suf) /\ SubSeq(s, Len(s) - Len(suf) + 1, Len(s)) = suf

\* the key list of a reference placeholder, as it is stored
PlaceholderKeys == Str(Join(<<Abbreviate(strType), Abbreviate(strPointer)>>))
\* the writes of the last save that store the key list of an object written in full
FullWrites ==
    {i \in DOMAIN call.log :
        EndsWith(call.log[i][1], strKeys) /\ call.log[i][2] # PlaceholderKeys}
\* the last call saved a record with a.a = a
SelfCycleSaved ==
    /\ call.op = "save"
    /\ IsNode(call.heap0, call.instance)
    /\ Get(call.heap0[call.instance.n], strA) = call.instance

\* C5: an instance met at two paths of one save has its field data written once,
\* under one pointer key, and the entries at both paths are reference
\* placeholders that carry the same pointer.
DedupSaved ==
    (/\ call.op = "save" /\ call.saves = 1
     /\ CleanSave
     /\ IsObject(call.instance)
     /\ call.heap0[call.instance.n].kind = "obj"
     /\ IsObject(Get(call.heap0[call.instance.n], strA))
     /\ Get(call.heap0[call.instance.n], strA) = Get(call.heap0[call.instance.n], strB)
     /\ ~Cyclic(call.heap0, call.instance))
    => /\ Cardinality(FullWrites) = Cardinality(Reachable(call.heap0, call.instance))
       /\ \E i, j \in DOMAIN call.log :
             /\ EndsWith(call.log[i][1], strA \o strPointer)
             /\ EndsWith(call.log[j][1], strB \o strPointer)
             /\ call.log[i][2] = call.log[j][2]

\* C6: the save of a record a with a.a = a whose type is registered for
\* reference-based storage returns without exhausting the call stack, having
\* written no store key twice and no more entries than the store holds.
SelfCycleSaveTerminates ==
    (/\ SelfCycleSaved
     /\ IsReferenceType(Str(strNode)))
    => /\ ~call.saveOverflow
       /\ \A i, j \in DOMAIN call.log : call.log[i][1] = call.log[j][1] => i = j
       /\ Len(call.log) <= Cardinality(DOMAIN store)
\* a record with a.a = a has been saved in full under its pointer and as a
\* placeholder under the root key and under its own field a
SelfCycleSaveWitness ==
    /\ SelfCycleSaved
    /\ IsReferenceType(Str(strNode))
    /\ CleanSave
    /\ call.instance.n \in DOMAIN savedStorageReferences
    /\ LET pointer == savedStorageReferences[call.instance.n]
       IN /\ (pointer \o strKeys) \in DOMAIN store
          /\ getDynamicProperty(store, pointer \o strA \o strPointer) = Str(pointer)
          /\ getDynamicProperty(store, call.saveKey \o strPointer) = Str(pointer)

\* C7: the save of a graph with a cycle or a shared instance, whatever the
\* objects are, returns without exhausting the call stack and emits a reference
\* placeholder for the repeated encounter.
CyclesSaved ==
    (/\ call.op = "save"
     /\ call.failAt = 0
     /\ Cyclic(call.heap0, call.instance) \/ Shared(call.heap0, call.instance))
    => /\ ~call.saveOverflow
       /\ \E i \in DOMAIN call.log : call.log[i][2] = Str(strStorageReference)

\* C8: a top-level save during which one store write fails returns normally.
SaveNeverAborts ==
    (call.op = "save" /\ call.failAt > 0 /\ ~call.saveOverflow) => ~call.saveThrew

\* C9: when the write of the primitive field a of a record saved onto the empty
\* store fails, the record reloads with a absent and with every other field
\* structurally equal to what was saved.
FieldFailureIsolated ==
    (/\ call.op = "load" /\ call.calls = 2 /\ call.saves = 1
     /\ call.loadKey = call.saveKey
     /\ ~KlassenRegistry.isNull
     /\ call.failAt > 0 /\ ~call.saveThrew /\ ~call.saveOverflow
     /\ IsObject(call.instance)
     /\ call.heap0[call.instance.n].kind = "obj"
     /\ ~IsReferenceType(Get(call.heap0[call.instance.n], strType))
     /\ IsPrimitive(Get(call.heap0[call.instance.n], strA))
     /\ \A i \in DOMAIN call.log : call.log[i][1] # call.saveKey \o strA)
    => /\ ~call.loadThrew
       /\ IsObject(call.ret)
       /\ Get(heap[call.ret.n], strA) = Undefined
       /\ LET i == heap[call.instance.n]
          IN \A k \in 1..Len(i.props) :
                i.props[k].name # strA =>
                    StructEq(heap, Get(heap[call.ret.n], i.props[k].name),
                             i.props[k].val, MaxDepth)

\* C10: when a load made with the registry initialised has raised, no pointer
\* is left unresolved in the load-side reference table.
FailedLoadLeavesNoTrace ==
    (call.op = "load" /\ call.loads = 1 /\ ~KlassenRegistry.isNull /\ call.loadThrew)
    => \A pointer \in DOMAIN loadedStorageReferences :
          loadedStorageReferences[pointer].isLoaded

\* C11: the keys of distinct field paths under one root key are distinct, so one
\* save of an acyclic graph writes no store key twice.
NoKeyCollision ==
    (call.op = "save" /\ call.failAt = 0 /\ ~Cyclic(call.heap0, call.instance))
    => \A i, j \in DOMAIN call.log : call.log[i][1] = call.log[j][1] => i = j

\* the names of the own properties of o
FieldNames(o) == {o.props[i].name : i \in 1..Len(o.props)}

\* C12: expanding the abbreviation of a registered name gives the name back, a
\* name that is not registered is left as it is by abbreviation and by
\* expansion, and so a record saved and loaded has the field names it had.
FieldNamesPreserved ==
    /\ \A name \in DOMAIN abbreviationsMap : Expand(Abbreviate(name)) = name
    /\ (/\ SavedThenLoaded
        /\ IsObject(call.instance)
        /\ call.heap0[call.instance.n].kind = "obj")
       => /\ \A name \in FieldNames(heap[call.instance.n]) \ DOMAIN abbreviationsMap :
                Abbreviate(name) = name /\ Expand(name) = name
          /\ ~call.loadThrew
          /\ IsObject(call.ret)
          /\ FieldNames(heap[call.ret.n]) = FieldNames(heap[call.instance.n])

StartsWith(s, pre) == Len(s) >= Len(pre) /\ SubSeq(s, 1, Len(pre)) = pre
\* no entry of the store has been written under the root key
NeverWritten(st, key) == \A k \in DOMAIN st : ~StartsWith(k, key)

\* C14: a top-level save of null or undefined writes no entry to the store and
\* does not raise, and a top-level load of a key under which nothing was ever
\* written returns undefined and does not raise.
EmptyHandling ==
    [][/\ (/\ call'.op = "save" /\ call'.calls = call.calls + 1
           /\ IsNullish(call'.instance))
          => (store' = store /\ call'.log = <<>> /\ ~call'.saveThrew)
       /\ (/\ call'.op = "load" /\ call'.calls = call.calls + 1
           /\ NeverWritten(store, call'.loadKey))
          => (call'.ret = Undefined /\ ~call'.loadThrew)]_vars
\* null was saved at a key of a store that holds another record, and the load
\* of that key returned undefined
EmptyHandlingWitness ==
    /\ call.op = "load" /\ call.calls = 3 /\ call.saves = 2
    /\ IsNullish(call.instance) /\ call.log = <<>>
    /\ call.loadKey = call.saveKey
    /\ store # <<>> /\ NeverWritten(store, call.loadKey)
    /\ call.ret = Undefined /\ ~call.loadThrew

\* C15: a top-level load leaves the store as it was, whether it returns or
\* raises, also when it dereferences pointers and runs the completion sweep.
LoadLeavesStore ==
    [][(call'.op = "load" /\ call'.calls = call.calls + 1) => store' = store]_vars
\* the first load of a run has dereferenced a pointer, resolved it, run the
\* completion sweep over the loaded record and returned it
LoadLeavesStoreWitness ==
    /\ call.op = "load" /\ call.loads = 1 /\ ~call.loadThrew
    /\ IsObject(call.ret)
    /\ store # <<>>
    /\ \E p \in DOMAIN loadedStorageReferences :
          /\ loadedStorageReferences[p].isLoaded
          /\ loadedStorageReferences[p].value = call.ret

\* C16: after a top-level save the saved instance and every object reachable
\* from it have the fields and field values they had before the call.
SaveLeavesInstance ==
    call.op = "save"
    => \A id \in Reachable(call.heap0, call.instance) : heap[id] = call.heap0[id]

\* the positions in the last load at which it did e with the pointer
EventsAt(e, pointer) ==
    {i \in DOMAIN call.events : call.events[i].e = e /\ call.events[i].pointer = pointer}
Dereferences(pointer) ==
    {i \in DOMAIN call.events : call.events[i].pointer = pointer}
\* when a keys list is stored under the pointer, the value is a record that
\* has every field of the list
LoadedFrom(pointer, v) ==
    LET keys == getDynamicProperty(store, TemplateString(pointer) \o strKeys)
    IN keys.t = "string"
       => /\ IsObject(v)
          /\ \A i \in DOMAIN Split(keys.s) :
                Expand(Split(keys.s)[i]) \in FieldNames(heap[v.n])

\* an entry is created, unresolved, by the first dereference of its pointer
EntryCreatedAtFirstDereference ==
    \A pointer \in DOMAIN loadedStorageReferences :
       IF pointer \in DOMAIN call.loaded0
       THEN EventsAt("mark", pointer) = {}
       ELSE /\ Cardinality(EventsAt("mark", pointer)) = 1
            /\ \A m \in EventsAt("mark", pointer), i \in Dereferences(pointer) : m <= i
\* an entry is resolved once, after its mark, with the record loaded from the
\* pointer's keys
EntryResolvedOnce ==
    \A pointer \in DOMAIN loadedStorageReferences :
       /\ loadedStorageReferences[pointer].isLoaded
       /\ pointer \notin DOMAIN call.loaded0
          => /\ Cardinality(EventsAt("resolve", pointer)) = 1
             /\ \A r \in EventsAt("resolve", pointer) :
                   /\ \A m \in EventsAt("mark", pointer) : m < r
                   /\ call.events[r].value = loadedStorageReferences[pointer].value
                   /\ LoadedFrom(pointer, call.events[r].value)
\* an entry that was resolved before the last load is still there, unchanged
EntryNeverReverts ==
    \A pointer \in DOMAIN call.loaded0 :
       /\ pointer \in DOMAIN loadedStorageReferences
       /\ call.loaded0[pointer].isLoaded
          => /\ loadedStorageReferences[pointer] = call.loaded0[pointer]
             /\ EventsAt("resolve", pointer) = {}

\* C17: every entry of the load-side table was created unresolved by the first
\* dereference of its pointer, has become resolved exactly once, after the
\* record under the pointer was loaded, and an entry once resolved is kept
\* with its value by every later load.
EntryLifecycle ==
    call.loads >= 1
    => EntryCreatedAtFirstDereference /\ EntryResolvedOnce /\ EntryNeverReverts

\* the writes of a reference placeholder for the pointer at the key
PlaceholderWrites(saveKey, pointer) ==
    << <<saveKey \o strKeys, PlaceholderKeys>>,
       <<saveKey \o Abbreviate(strType), Str(strStorageReference)>>,
       <<saveKey \o Abbreviate(strPointer), Str(pointer)>> >>

\* C18: the save-side table outlives the top-level call that filled it: a
\* later top-level save whose instance an earlier call has recorded writes the
\* three entries of a placeholder carrying the earlier pointer and nothing
\* else, and no later save mints a second pointer for a recorded instance or
\* writes under its pointer again.
SavedTablePersists ==
    [][(call'.op = "save" /\ call'.calls = call.calls + 1 /\ call'.failAt = 0)
       => /\ \A id \in DOMAIN savedStorageReferences :
                /\ id \in DOMAIN savedStorageReferences'
                /\ savedStorageReferences'[id] = savedStorageReferences[id]
                /\ \A i \in DOMAIN call'.log :
                      ~StartsWith(call'.log[i][1], savedStorageReferences[id])
          /\ (IsObject(call'.instance)
              /\ call'.instance.n \in DOMAIN savedStorageReferences)
             => call'.log = PlaceholderWrites(call'.saveKey,
                                savedStorageReferences[call'.instance.n])]_vars
\* a record saved in full by a save at K has been saved again at L, as a
\* placeholder for the pointer minted under K
SavedTablePersistsWitness ==
    /\ call.op = "save" /\ call.saves >= 2 /\ call.failAt = 0
    /\ call.saveKey = strL
    /\ IsObject(call.instance)
    /\ call.instance.n \in DOMAIN savedStorageReferences
    /\ StartsWith(savedStorageReferences[call.instance.n], strK)
    /\ call.log = PlaceholderWrites(strL, savedStorageReferences[call.instance.n])
    /\ getDynamicProperty(store, savedStorageReferences[call.instance.n] \o strKeys).t
          = "string"

\* C19: after a load that returned, no object reachable from the value a
\* pointer was resolved to holds a reference placeholder for that pointer: the
\* completion sweep run when the pointer was resolved has replaced each of
\* them with the resolved value.
SweepCompletes ==
    (call.op = "load" /\ ~call.loadThrew /\ ~KlassenRegistry.isNull)
    => \A pointer \in DOMAIN loadedStorageReferences :
          loadedStorageReferences[pointer].isLoaded
          => \A id \in Reachable(heap, loadedStorageReferences[pointer].value) :
                \A v \in Held(heap[id]) :
                   ~(IsPlaceholder(heap, v) /\ Get(heap[v.n], strPointer) = pointer)

\* the pointer's record is being loaded at position i of the last load: it was
\* marked before i and not resolved in between
BeingLoadedAt(pointer, i) ==
    \E m \in EventsAt("mark", pointer) :
       m < i /\ \A r \in EventsAt("resolve", pointer) : ~(m < r /\ r < i)
\* the pointer is resolved at position i of the last load: by an earlier call
\* or earlier in this one
ResolvedAt(pointer, i) ==
    \/ pointer \in DOMAIN call.loaded0 /\ call.loaded0[pointer].isLoaded
    \/ \E r \in EventsAt("resolve", pointer) : r < i

\* C20: in every top-level load, a dereference of a pointer whose record is
\* being loaded returns a fresh placeholder {type, pointer} and starts no load;
\* the record under a pointer is loaded only when the table has no entry for
\* it, so at most once in a run; and a dereference of a resolved pointer
\* returns the value it was resolved to.
SingleLoadPerPointer ==
    call.op = "load"
    => /\ DOMAIN call.loaded0 \subseteq DOMAIN loadedStorageReferences
       /\ \A i \in DOMAIN call.events :
             LET ev == call.events[i]
             IN /\ (ev.e # "resolve" /\ BeingLoadedAt(ev.pointer, i))
                   => /\ ev.e = "placeholder"
                      /\ IsObject(ev.value)
                      /\ heap[ev.value.n] = Placeholder(ev.pointer)
                /\ ev.e = "mark"
                   => /\ ev.pointer \notin DOMAIN call.loaded0
                      /\ \A m \in EventsAt("mark", ev.pointer) : m >= i
                /\ ResolvedAt(ev.pointer, i)
                   => /\ ev.e = "hit"
                      /\ ev.value = loadedStorageReferences[ev.pointer].value
\* one load has marked a pointer, handed out a placeholder for it while its
\* record was being loaded, resolved it, and then returned the resolved value
\* at a further dereference
SingleLoadPerPointerWitness ==
    /\ call.op = "load" /\ ~call.loadThrew
    /\ \E m, q, r, x \in DOMAIN call.events :
          /\ m < q /\ q < r /\ r < x
          /\ call.events[m].e = "mark"
          /\ call.events[q].e = "placeholder"
          /\ call.events[r].e = "resolve"
          /\ call.events[x].e = "hit"
          /\ \A y \in {q, r, x} : call.events[y].pointer = call.events[m].pointer

\* the store holds, under the key, the keys list of the object and an entry
\* for each of its fields that has a value
FullEncodingAt(st, key, o) ==
    LET keys == getKeys(o, TRUE)
    IN /\ getDynamicProperty(st, key \o strKeys)
             = Str(Join([i \in 1..Len(keys) |-> Abbreviate(keys[i])]))
       /\ \A i \in 1..Len(keys) :
             ~IsNullish(Get(o, keys[i]))
             => \E k \in DOMAIN st : StartsWith(k, key \o Abbreviate(keys[i]))
\* the root entry under the key is a reference placeholder
PlaceholderAt(st, key) ==
    \/ getDynamicProperty(st, key \o strT) = Str(strStorageReference)
    \/ getDynamicProperty(st, key \o strKeys) = PlaceholderKeys

\* C21: in a run in which no store write has failed, after a save the store
\* holds under the pointer of every recorded instance the instance's keys list
\* and fields, and the root entry under a pointer is not a reference
\* placeholder.
PointerHoldsFullEncoding ==
    (call.op = "save" /\ call.fails = 0 /\ ~call.saveOverflow)
    => \A id \in DOMAIN savedStorageReferences :
          /\ FullEncodingAt(store, savedStorageReferences[id], heap[id])
          /\ ~PlaceholderAt(store, savedStorageReferences[id])
\* a record that refers to a recorded instance has been saved: the store holds
\* placeholders at the root key and inside the encoding under the pointer
PointerHoldsFullEncodingWitness ==
    /\ call.op = "save" /\ call.fails = 0 /\ ~call.saveOverflow
    /\ IsObject(call.instance)
    /\ call.instance.n \in DOMAIN savedStorageReferences
    /\ PlaceholderAt(store, call.saveKey)
    /\ PlaceholderAt(store, savedStorageReferences[call.instance.n] \o strA)
    /\ FullEncodingAt(store, savedStorageReferences[call.instance.n], heap[call.instance.n])

\* the value is what is stored at the key, when a primitive is stored there
LoadedValueOf(v, key) ==
    IsPrimitive(getDynamicProperty(store, key)) => v = getDynamicProperty(store, key)

\* C22: a set or a map saved onto the empty store and loaded from the same key
\* comes back as a collection of the same kind with as many elements, the
\* element (or key and value) at each position being the value stored for it.
CollectionLoaded ==
    (/\ SavedThenLoaded
     /\ IsObject(call.instance)
     /\ call.heap0[call.instance.n].kind \in {"set", "map"})
    => /\ ~call.loadThrew
       /\ IsObject(call.ret)
       /\ LET o == heap[call.ret.n]
              p == call.heap0[call.instance.n]
          IN /\ o.kind = p.kind
             /\ Len(o.elems) = Len(p.elems)
             /\ Len(o.vals) = Len(p.vals)
             /\ \A i \in 1..Len(o.elems) :
                   IF o.kind = "set"
                   THEN LoadedValueOf(o.elems[i],
                                      call.saveKey \o strItem \o NumToString(i - 1))
                   ELSE /\ LoadedValueOf(o.elems[i],
                                         call.saveKey \o strKey \o NumToString(i - 1))
                        /\ LoadedValueOf(o.vals[i],
                                         call.saveKey \o strValue \o NumToString(i - 1))

\* C23: a sequence saved onto the empty store and loaded from the same key
\* comes back as a sequence of the same length, the element at each index
\* being the value stored for that index.
SequenceLoaded ==
    (/\ SavedThenLoaded
     /\ IsObject(call.instance)
     /\ call.heap0[call.instance.n].kind = "arr")
    => /\ ~call.loadThrew
       /\ IsObject(call.ret)
       /\ LET o == heap[call.ret.n]
              p == call.heap0[call.instance.n]
          IN /\ o.kind = "arr"
             /\ Len(o.elems) = Len(p.elems)
             /\ \A i \in 1..Len(o.elems) :
                   LoadedValueOf(o.elems[i], call.saveKey \o NumToString(i - 1))

\* the keys under which the elements of a collection are saved
ElementKeys(o, saveKey) ==
    CASE o.kind = "arr" -> {saveKey \o NumToString(i - 1) : i \in 1..Len(o.elems)}
      [] o.kind = "set" -> {saveKey \o strItem \o NumToString(i - 1) : i \in 1..Len(o.elems)}
      [] o.kind = "map" -> {saveKey \o strKey \o NumToString(i - 1) : i \in 1..Len(o.elems)}
                           \cup {saveKey \o strValue \o NumToString(i - 1) :
                                    i \in 1..Len(o.elems)}
      [] OTHER -> {}
\* the writes a collection makes before it saves its first element
HeaderWrites(o) == IF o.kind = "arr" THEN 1 ELSE 2
\* the last save wrote an entry at or under the key
WrittenUnder(key) == \E i \in DOMAIN call.log : StartsWith(call.log[i][1], key)

\* C24: when a store write fails while one element of a sequence, set or map
\* is saved, the save writes every other element of the collection.
ElementFailureIsolated ==
    (/\ call.op = "save" /\ call.failAt > 0 /\ ~call.saveOverflow
     /\ IsObject(call.instance)
     /\ call.heap0[call.instance.n].kind \in {"arr", "set", "map"}
     /\ call.failAt > HeaderWrites(call.heap0[call.instance.n]))
    => Cardinality({key \in ElementKeys(call.heap0[call.instance.n], call.saveKey) :
                      ~WrittenUnder(key)}) <= 1

\* C25: after a save of a sequence, set, map or typed record during which no
\* write failed, the store holds at saveKey + "t", where a load reads the
\* discriminator, the discriminator of the instance or that of the reference
\* placeholder written in its place.
DiscriminatorKeyAgrees ==
    (/\ call.op = "save" /\ CleanSave
     /\ IsObject(call.instance)
     /\ Get(heap[call.instance.n], strType).t = "string")
    => getDynamicProperty(store, call.saveKey \o strT)
          \in {Get(heap[call.instance.n], strType), Str(strStorageReference)}

\* C26: in a run in which no store write has failed, a load from the key of
\* the last save, that save being of a primitive, returns the primitive,
\* whatever earlier saves have left in the store.
LastSaveWins ==
    (/\ call.op = "load" /\ call.fails = 0
     /\ ~KlassenRegistry.isNull
     /\ call.loadKey = call.saveKey
     /\ IsPrimitive(call.instance))
    => /\ ~call.loadThrew
       /\ call.ret = call.instance

\* C27: a record of a reference-stored type is saved, its field a is then
\* assigned a new value, and it is saved again; a load from the key of the
\* second save returns a record whose field a has the new value.
ResavePersists ==
    (/\ call.op = "load" /\ call.assigns = 1 /\ call.saves = 2 /\ call.fails = 0
     /\ ~KlassenRegistry.isNull
     /\ call.loadKey = call.saveKey
     /\ IsObject(call.instance)
     /\ call.instance.n \in DOMAIN savedStorageReferences
     /\ Get(heap[call.instance.n], strA) = Num(2))
    => /\ ~call.loadThrew
       /\ IsObject(call.ret)
       /\ Get(heap[call.ret.n], strA) = Num(2)

\* C28: between top-level calls, also after a save during which a store write
\* failed, the store holds under the pointer of every instance recorded in the
\* save-side table the keys list and the fields of that instance.
RecordedPointersHoldData ==
    \A id \in DOMAIN savedStorageReferences :
       FullEncodingAt(store, savedStorageReferences[id], heap[id])

====
